---- MODULE Spec2Model ----
(***************************************************************************)
(* A model of src/src/PurchaseForecast.js: the React component             *)
(* PurchaseForecast, its state (useState cells), its event handlers, the   *)
(* effect that derives the start date, and the asynchronous run            *)
(* handleTrainModel -> preprocessData -> trainModel -> predictSales.       *)
(*                                                                         *)
(* Strings the code takes apart (sales_date, startDate, the labels) are    *)
(* sequences of one-character strings; product descriptions, which the     *)
(* code only uses as object keys, are plain strings.  JavaScript numbers   *)
(* are records [k, v]: a finite integer, +Infinity, -Infinity or NaN.      *)
(***************************************************************************)
EXTENDS Integers, Sequences, FiniteSets, TLC

VARIABLES
    data,             \* useState([])   line 11: the raw records of the last upload
    predictions,      \* useState([])   line 12: the displayed forecast points
    loading,          \* useState(false) line 13
    jsonData,         \* useState(null) line 14
    productMap,       \* useState({})   line 15: the product catalog
    startDate,        \* useState("")   line 16
    selectedProduct,  \* useState("")   line 17
    parsing,          \* Papa.parse calls whose complete callback has not run yet
    runs              \* the calls of handleTrainModel, in the order they started

vars == <<data, predictions, loading, jsonData, productMap, startDate,
          selectedProduct, parsing, runs>>

(***************************************************************************)
(* JavaScript numbers.                                                     *)
(***************************************************************************)
Fin(n) == [k |-> "fin", v |-> n]
PInf == [k |-> "pinf", v |-> 0]
NInf == [k |-> "ninf", v |-> 0]
NaN == [k |-> "nan", v |-> 0]
\* undefined, and a value that is no number (an inherited property of {}).
Undefined == [k |-> "undef", v |-> 0]
NotANumber == [k |-> "obj", v |-> 0]

IsFin(x) == x.k = "fin"

\* ToNumber of what a numeric operator is given: undefined and objects give NaN.
Num(x) == IF x.k \in {"undef", "obj"} THEN NaN ELSE x

XNeg(x) ==
    CASE x.k = "fin" -> Fin(-x.v)
      [] x.k = "pinf" -> NInf
      [] x.k = "ninf" -> PInf
      [] OTHER -> NaN

\* a + b for numbers.
AddNumbers(a, b) ==
    CASE a.k = "nan" \/ b.k = "nan" -> NaN
      [] a.k = "fin" /\ b.k = "fin" -> Fin(a.v + b.v)
      [] a.k = "fin" -> b
      [] b.k = "fin" -> a
      [] a.k = b.k -> a
      [] OTHER -> NaN

\* a + b
XAdd(a, b) == AddNumbers(Num(a), Num(b))

\* a - b
XSub(a, b) == AddNumbers(Num(a), XNeg(Num(b)))

\* a < b as JavaScript compares numbers: false when either is NaN.
XLess(a, b) ==
    CASE a.k = "nan" \/ b.k = "nan" -> FALSE
      [] a.k = "fin" /\ b.k = "fin" -> a.v < b.v
      [] a.k = "ninf" -> b.k # "ninf"
      [] b.k = "pinf" -> a.k # "pinf"
      [] OTHER -> FALSE

\* The remainder operator %, whose result has the sign of the dividend.
JsRem(a, b) == IF a >= 0 THEN a % b ELSE -((-a) % b)

RemNumber(a, b) == IF a.k = "fin" THEN Fin(JsRem(a.v, b)) ELSE NaN

\* a % b for a positive integer b.
XRem(a, b) == RemNumber(Num(a), b)

FloorDivNumber(a, b) == IF a.k = "fin" THEN Fin(a.v \div b) ELSE a

\* Math.floor(a / b) for a positive integer b.
XFloorDiv(a, b) == FloorDivNumber(Num(a), b)

\* Math.max of two numbers: NaN if either is NaN.
Max2(h, t) ==
    CASE h.k = "nan" \/ t.k = "nan" -> NaN
      [] XLess(h, t) -> t
      [] OTHER -> h

\* Math.min of two numbers: NaN if either is NaN.
Min2(h, t) ==
    CASE h.k = "nan" \/ t.k = "nan" -> NaN
      [] XLess(t, h) -> t
      [] OTHER -> h

RECURSIVE MathMax(_)
\* Math.max(...xs): -Infinity for no arguments.
MathMax(xs) == IF xs = <<>> THEN NInf ELSE Max2(Num(Head(xs)), MathMax(Tail(xs)))

RECURSIVE MathMin(_)
\* Math.min(...xs): +Infinity for no arguments.
MathMin(xs) == IF xs = <<>> THEN PInf ELSE Min2(Num(Head(xs)), MathMin(Tail(xs)))

(***************************************************************************)
(* Strings as sequences of characters.                                     *)
(***************************************************************************)
DigitChars == <<"0", "1", "2", "3", "4", "5", "6", "7", "8", "9">>
IsDigit(c) == \E i \in 1..10 : DigitChars[i] = c
DigitVal(c) == (CHOOSE i \in 1..10 : DigitChars[i] = c) - 1

\* The index of the first sep in s, 0 when there is none.
IndexOf(s, sep) ==
    IF \E i \in 1..Len(s) : s[i] = sep
    THEN CHOOSE i \in 1..Len(s) : s[i] = sep /\ \A j \in 1..(i - 1) : s[j] # sep
    ELSE 0

RECURSIVE SplitAt(_, _, _)
\* s.split(sep), given the index i of the first sep in s.
SplitAt(s, sep, i) ==
    IF i = 0 THEN <<s>>
    ELSE <<SubSeq(s, 1, i - 1)>>
         \o SplitAt(SubSeq(s, i + 1, Len(s)), sep,
                    IndexOf(SubSeq(s, i + 1, Len(s)), sep))

\* String.prototype.split(sep) for a one-character separator.
Split(s, sep) == SplitAt(s, sep, IndexOf(s, sep))

\* parts[i] of a JavaScript array, 1-based here: <<>> stands for undefined,
\* past the end.
Part(parts, i) == IF i <= Len(parts) THEN <<parts[i]>> ELSE <<>>

RECURSIVE TrimLeft(_)
TrimLeft(s) == IF s # <<>> /\ Head(s) = " " THEN TrimLeft(Tail(s)) ELSE s

RECURSIVE TrimRight(_)
TrimRight(s) ==
    IF s # <<>> /\ s[Len(s)] = " " THEN TrimRight(SubSeq(s, 1, Len(s) - 1)) ELSE s

RECURSIVE DigitsPrefixLen(_)
DigitsPrefixLen(s) ==
    IF s # <<>> /\ IsDigit(Head(s)) THEN 1 + DigitsPrefixLen(Tail(s)) ELSE 0

RECURSIVE DigitsValue(_)
\* The value of a run of decimal digits.
DigitsValue(s) ==
    IF s = <<>> THEN 0
    ELSE DigitsValue(SubSeq(s, 1, Len(s) - 1)) * 10 + DigitVal(s[Len(s)])

HasSign(t) == t # <<>> /\ Head(t) \in {"-", "+"}
IsNegative(t) == t # <<>> /\ Head(t) = "-"
Signed(negative, n) == Fin(IF negative THEN -n ELSE n)

\* The digits at the head of u, n of them, as a number: NaN for none.
LeadingDigits(negative, u, n) ==
    IF n = 0 THEN NaN ELSE Signed(negative, DigitsValue(SubSeq(u, 1, n)))

\* parseInt of a string without leading blanks: one sign is skipped, then
\* the longest run of digits is read.
ParseIntTrimmed(t) ==
    IF HasSign(t) THEN LeadingDigits(IsNegative(t), Tail(t), DigitsPrefixLen(Tail(t)))
    ELSE LeadingDigits(FALSE, t, DigitsPrefixLen(t))

\* parseInt(x, 10) of an array element: x is <<string>>, or <<>> for undefined.
ParseInt(x) == IF x = <<>> THEN NaN ELSE ParseIntTrimmed(TrimLeft(x[1]))

\* The whole of u as a run of digits: NaN if it is empty or holds anything else.
WholeDigits(negative, u) ==
    IF u # <<>> /\ DigitsPrefixLen(u) = Len(u) THEN Signed(negative, DigitsValue(u))
    ELSE NaN

\* Number(t) of a string without blanks around it, over digits, signs and
\* letters: the empty string is 0, an optionally signed run of digits is its
\* value, anything else is NaN.
NumberOfTrimmed(t) ==
    IF t = <<>> THEN Fin(0)
    ELSE IF HasSign(t) THEN WholeDigits(IsNegative(t), Tail(t))
    ELSE WholeDigits(FALSE, t)

\* Number(s)
NumberOfString(s) == NumberOfTrimmed(TrimRight(TrimLeft(s)))

RECURSIVE NatToString(_)
NatToString(n) ==
    IF n < 10 THEN <<DigitChars[n + 1]>>
    ELSE NatToString(n \div 10) \o <<DigitChars[(n % 10) + 1]>>

\* String(x) of a number, as a template literal formats it.
NumberToString(x) ==
    CASE x.k = "fin" -> IF x.v < 0 THEN <<"-">> \o NatToString(-x.v) ELSE NatToString(x.v)
      [] x.k = "pinf" -> <<"I", "n", "f", "i", "n", "i", "t", "y">>
      [] x.k = "ninf" -> <<"-", "I", "n", "f", "i", "n", "i", "t", "y">>
      [] OTHER -> <<"N", "a", "N">>

\* s.padStart(2, "0")
PadStart2(s) == IF Len(s) < 2 THEN <<"0">> \o s ELSE s

(***************************************************************************)
(* The values of a raw record's fields.  Papa.parse runs with dynamicTyping *)
(* (line 25), so a field is a string, a number or null.                    *)
(***************************************************************************)
JStr(s) == [t |-> "str", s |-> s, x |-> Fin(0)]
JNum(x) == [t |-> "num", s |-> <<>>, x |-> x]
JNull == [t |-> "null", s |-> <<>>, x |-> Fin(0)]

\* ToNumber(v): null is 0.
ToNumber(v) ==
    CASE v.t = "num" -> v.x
      [] v.t = "str" -> NumberOfString(v.s)
      [] OTHER -> Fin(0)

\* !v
Falsy(v) ==
    CASE v.t = "null" -> TRUE
      [] v.t = "str" -> v.s = <<>>
      [] OTHER -> v.x.k = "nan" \/ v.x = Fin(0)

\* isNaN(v)
IsNaN(v) == ToNumber(v).k = "nan"

(***************************************************************************)
(* Plain objects used as maps: the catalog is a function from its own keys *)
(* to codes.  The properties every object literal inherits are listed,     *)
(* because the in operator (line 60) sees them.                            *)
(***************************************************************************)
EmptyObject == [key \in {} |-> 0]

ObjectPrototypeKeys ==
    {"constructor", "toString", "toLocaleString", "valueOf", "hasOwnProperty",
     "isPrototypeOf", "propertyIsEnumerable", "__proto__", "__defineGetter__",
     "__defineSetter__", "__lookupGetter__", "__lookupSetter__"}

\* key in obj
HasProperty(obj, key) == key \in DOMAIN obj \/ key \in ObjectPrototypeKeys

\* obj[key]
GetProperty(obj, key) ==
    CASE key \in DOMAIN obj -> Fin(obj[key])
      [] key \in ObjectPrototypeKeys -> NotANumber
      [] OTHER -> Undefined

\* obj[key] = value, for a key that is no own property yet and is not
\* inherited (the only assignment the code makes, line 61).
SetProperty(obj, key, value) ==
    [q \in DOMAIN obj \cup {key} |-> IF q = key THEN value ELSE obj[q]]

\* Object.keys(obj): the own keys in insertion order, which here is the order
\* of the codes (no key of the model is an integer index).
RECURSIVE KeysFrom(_, _)
KeysFrom(obj, code) ==
    IF \E q \in DOMAIN obj : obj[q] = code
    THEN <<CHOOSE q \in DOMAIN obj : obj[q] = code>> \o KeysFrom(obj, code + 1)
    ELSE <<>>

ObjectKeys(obj) == KeysFrom(obj, 0)

(***************************************************************************)
(* preprocessData, lines 45-86.                                            *)
(***************************************************************************)
\* year * 12
Times12(year) == IF IsFin(year) THEN Fin(year.v * 12) ELSE year

\* year * 12 + month, line 66
MonthIndex(year, month) == XAdd(Times12(Num(year)), month)

\* The catalog after lines 60-62 for this key: a key the object does not
\* have gets the next index.
Encode(map, next, key) ==
    IF ~HasProperty(map, key) THEN SetProperty(map, key, next) ELSE map

\* productIndex after lines 60-62.
NextProductIndex(map, next, key) == IF ~HasProperty(map, key) THEN next + 1 ELSE next

\* The object returned at lines 65-69, for the catalog after lines 60-62
\* and the dateParts of line 56.
ProcessedEntry(map, entry, dateParts) ==
    [month |-> MonthIndex(ParseInt(Part(dateParts, 3)), ParseInt(Part(dateParts, 1))),
     product_description |-> GetProperty(map, entry.product_description),
     quantity_sold |-> entry.quantity_sold]

\* Lines 56-69 for an entry that passed the test of line 51.
KeepEntry(acc, entry, map, dateParts) ==
    [map |-> map,
     next |-> NextProductIndex(acc.map, acc.next, entry.product_description),
     out |-> Append(acc.out, ProcessedEntry(map, entry, dateParts)),
     thrown |-> FALSE]

\* One turn of the map callback, lines 50-70, on the accumulated
\* [map, next, out, thrown]: the catalog so far, productIndex, the entries
\* kept so far (the nulls are filtered out at line 71), and whether the
\* callback has thrown.
PreprocessEntry(acc, entry) ==
    IF acc.thrown THEN acc
    ELSE IF Falsy(entry.sales_date) \/ IsNaN(entry.quantity_sold) THEN acc
    ELSE IF entry.sales_date.t # "str"
         THEN [acc EXCEPT !.thrown = TRUE]   \* sales_date.split is not a function
    ELSE KeepEntry(acc, entry,
                   Encode(acc.map, acc.next, entry.product_description),
                   Split(Split(entry.sales_date.s, " ")[1], "/"))

RECURSIVE PreprocessEntries(_, _)
PreprocessEntries(acc, entries) ==
    IF entries = <<>> THEN acc
    ELSE PreprocessEntries(PreprocessEntry(acc, Head(entries)), Tail(entries))

\* processedData with the catalog it was encoded with, lines 46-71.
ProcessedData(entries) ==
    PreprocessEntries([map |-> EmptyObject, next |-> 0, out |-> <<>>, thrown |-> FALSE],
                      entries)

\* quantities, line 73, as Math.max and Math.min read them.
Quantities(processed) ==
    [i \in 1..Len(processed) |-> ToNumber(processed[i].quantity_sold)]

\* d || 1: 0 and NaN are falsy.
OrOne(d) == IF d.k = "nan" \/ d = Fin(0) THEN Fin(1) ELSE d

\* maxQuantity - minQuantity || 1, line 77
Range(maxQuantity, minQuantity) == OrOne(XSub(maxQuantity, minQuantity))

\* (v - minQuantity) / range, line 80, kept as the quotient of its operands.
Normalize(v, minQuantity, range) ==
    [num |-> XSub(ToNumber(v), minQuantity), den |-> range]

\* normalizedData, lines 78-81
NormalizedData(processed, minQuantity, range) ==
    [i \in 1..Len(processed) |->
        [month |-> processed[i].month,
         product_description |-> processed[i].product_description,
         quantity_sold |-> Normalize(processed[i].quantity_sold, minQuantity, range)]]

\* Lines 77-85 for the processed data p and its maximum and minimum.
PreprocessResult(p, maxQuantity, minQuantity) ==
    [thrown |-> p.thrown,
     newProductMap |-> p.map,
     normalizedData |->
         NormalizedData(p.out, minQuantity, Range(maxQuantity, minQuantity)),
     maxQuantity |-> maxQuantity,
     minQuantity |-> minQuantity]

\* Lines 73-85 for the processed data p.
Scaled(p) ==
    PreprocessResult(p, MathMax(Quantities(p.out)), MathMin(Quantities(p.out)))

\* What preprocessData returns, with the catalog it hands to setProductMap;
\* thrown when the map callback threw (nothing after line 71 runs then).
PreprocessData(entries) == Scaled(ProcessedData(entries))

(***************************************************************************)
(* trainModel, lines 88-114.                                               *)
(***************************************************************************)
\* Math.sin and Math.cos of 2 * pi * phase / 12 (lines 91-92, 143-144): the
\* pair is the point of the unit circle at phase twelfths of a turn, named
\* here by phase modulo 12; NaN for a phase that is no finite number.
SinCosNumber(p) == IF IsFin(p) THEN Fin(p.v % 12) ELSE NaN

SinCos(phase) == SinCosNumber(Num(phase))

\* The phase of a training example: d.month % 12, lines 91-92.
TrainPhase(monthIndex) == XRem(monthIndex, 12)

\* One row of xs, lines 90-94.
TrainRow(d) ==
    [sincos |-> SinCos(TrainPhase(d.month)), product |-> d.product_description]

Xs(normalizedData) ==
    [i \in 1..Len(normalizedData) |-> TrainRow(normalizedData[i])]

Ys(normalizedData) ==
    [i \in 1..Len(normalizedData) |-> normalizedData[i].quantity_sold]

\* tf.tensor2d(rows) with no shape, line 89: an empty array is flat, and a
\* flat array without a shape is rejected with an Error.
Tensor2dThrows(rows) == rows = <<>>

(***************************************************************************)
(* predictSales, lines 116-162.                                            *)
(***************************************************************************)
Horizon == 6

monthNames ==
    <<"January", "February", "March", "April", "May", "June", "July",
      "August", "September", "October", "November", "December">>

\* [year, month] of the array parts.map(Number), line 118: month is
\* undefined when there is no second part.
YearMonthOfParts(parts) ==
    [year |-> NumberOfString(parts[1]),
     month |-> IF Len(parts) >= 2 THEN NumberOfString(parts[2]) ELSE Undefined]

\* startDate.split("-").map(Number), destructured into [year, month], line 118.
StartYearMonth(start) == YearMonthOfParts(Split(start, "-"))

\* NextMonth without the - 1 of line 138: (month + i) % 12 + 1.
NextMonthOffByOne(month, i) == XAdd(XRem(XAdd(month, Fin(i)), 12), Fin(1))

\* (month + i - 1) % 12 + 1, line 138
NextMonth(month, i) == XAdd(XRem(XAdd(XAdd(month, Fin(i)), Fin(-1)), 12), Fin(1))

\* year + Math.floor((month + i - 1) / 12), line 139
NextYear(year, month, i) ==
    XAdd(year, XFloorDiv(XAdd(XAdd(month, Fin(i)), Fin(-1)), 12))

\* The phase of a forecast feature: nextMonth - 1, lines 143-144.
ForecastPhase(nextMonth) == XAdd(nextMonth, Fin(-1))

\* monthNames[idx]: undefined, which a template literal writes as the word,
\* when idx is no index of the array.
MonthName(idx) ==
    IF IsFin(idx) /\ idx.v \in 0..11 THEN monthNames[idx.v + 1] ELSE "undefined"

\* `${monthNames[nextMonth - 1]} ${nextYear}`, line 154: the month's name, a
\* blank, and the year's digits.
Label(nextMonth, nextYear) ==
    <<MonthName(XAdd(nextMonth, Fin(-1))), " ">> \o NumberToString(nextYear)

\* normalizedPrediction * (maxQuantity - minQuantity) + minQuantity, line 150.
\* The prediction is what the fitted model gives for the input, so it is
\* named by the model and the input; the product and the sum are kept as
\* their operands.
Denormalize(prediction, maxQuantity, minQuantity) ==
    [prediction |-> prediction,
     scale |-> XSub(maxQuantity, minQuantity),
     offset |-> minQuantity]

\* The object pushed at lines 153-157, for the nextMonth and nextYear of
\* lines 138-139 and the productIndex of line 142.
PushedPoint(model, selected, productIndex, maxQuantity, minQuantity, nextMonth, nextYear) ==
    [sales_date |-> Label(nextMonth, nextYear),
     product_description |-> selected,
     quantity_sold |->
         Denormalize([model |-> model,
                      input |-> [sincos |-> SinCos(ForecastPhase(nextMonth)),
                                 product |-> productIndex]],
                     maxQuantity, minQuantity)]

\* Loop turn i, lines 138-157, for the [year, month] of line 118.
PointOfTurn(model, closure, maxQuantity, minQuantity, ym, i) ==
    PushedPoint(model, closure.selectedProduct,
                GetProperty(closure.productMap, closure.selectedProduct),
                maxQuantity, minQuantity,
                NextMonth(ym.month, i), NextYear(ym.year, ym.month, i))

\* The forecast point of loop turn i by the run with this model and these
\* closed-over startDate, selectedProduct and productMap.
ForecastPoint(model, closure, maxQuantity, minQuantity, i) ==
    PointOfTurn(model, closure, maxQuantity, minQuantity,
                StartYearMonth(closure.startDate), i)

\* futurePredictions after the loop, lines 136-159: nothing is pushed when
\* selectedProduct is the empty string.
FuturePredictions(model, closure, maxQuantity, minQuantity) ==
    IF closure.selectedProduct = "" THEN <<>>
    ELSE [j \in 1..Horizon |->
             ForecastPoint(model, closure, maxQuantity, minQuantity, j - 1)]

(***************************************************************************)
(* The effect of lines 172-191, which runs after a render in which         *)
(* selectedProduct or data changed.                                        *)
(***************************************************************************)
InvalidDate == [valid |-> FALSE, y |-> 0, m |-> 0]

AllDigits(s) == s # <<>> /\ DigitsPrefixLen(s) = Len(s)

\* Whether a time of day is one of digits and colons.
TimeOk(words) ==
    \/ Len(words) = 1
    \/ /\ Len(words) = 2
       /\ words[2] # <<>>
       /\ \A i \in 1..Len(words[2]) : IsDigit(words[2][i]) \/ words[2][i] = ":"

\* The date of the parts of M/D/YYYY.
DateOfParts(words, parts) ==
    IF /\ TimeOk(words)
       /\ Len(parts) = 3
       /\ \A i \in 1..3 : AllDigits(parts[i])
       /\ DigitsValue(parts[1]) \in 1..12
       /\ DigitsValue(parts[2]) \in 1..31
       /\ Len(parts[3]) = 4
    THEN [valid |-> TRUE, y |-> DigitsValue(parts[3]), m |-> DigitsValue(parts[1])]
    ELSE InvalidDate

DateOfWords(words) == DateOfParts(words, Split(words[1], "/"))

\* new Date(v), of which the effect reads the year and the month only: a
\* string M/D/YYYY, optionally followed by a blank and a time of digits and
\* colons, is that day (the inputs name no day past the end of its month);
\* any other string is an Invalid Date; null and small numbers are the first
\* instant of 1970, read in a UTC time zone.
NewDate(v) ==
    IF v.t # "str" THEN [valid |-> TRUE, y |-> 1970, m |-> 1]
    ELSE DateOfWords(Split(v.s, " "))

\* currentDate < earliest, line 181: false when either date is invalid.
DateBefore(a, b) ==
    a.valid /\ b.valid /\ (a.y < b.y \/ (a.y = b.y /\ a.m < b.m))

\* The callback of reduce, line 181.
Earlier(earliest, currentDate) ==
    IF DateBefore(currentDate, earliest) THEN currentDate ELSE earliest

RECURSIVE EarliestDate(_, _)
\* productData.reduce(...), lines 179-182.
EarliestDate(earliest, rest) ==
    IF rest = <<>> THEN earliest
    ELSE EarliestDate(Earlier(earliest, NewDate(Head(rest).sales_date)), Tail(rest))

\* `${getFullYear()}-${String(getMonth() + 1).padStart(2, "0")}`, lines 185-187
FormatYearMonth(d) ==
    IF d.valid
    THEN NumberToString(Fin(d.y)) \o <<"-">> \o PadStart2(NumberToString(Fin(d.m)))
    ELSE NumberToString(NaN) \o <<"-">> \o PadStart2(NumberToString(NaN))

\* Lines 178-189 for the productData of lines 175-177.
StartDateOf(productData, start) ==
    IF Len(productData) > 0
    THEN FormatYearMonth(EarliestDate(NewDate(productData[1].sales_date), productData))
    ELSE start

\* startDate after the effect has run with these selectedProduct and data.
EffectStartDate(selected, rows, start) ==
    IF selected # "" /\ Len(rows) > 0
    THEN StartDateOf(SelectSeq(rows, LAMBDA item : item.product_description = selected),
                     start)
    ELSE start

(***************************************************************************)
(* The inputs: the rows a CSV file can hold, the files a user can upload,  *)
(* the start dates a user can type.                                        *)
(***************************************************************************)
MaxRuns == 2

Row(date, product, quantity) ==
    [sales_date |-> date, product_description |-> product, quantity_sold |-> quantity]

\* Rows that pass validation.
WidgetJanuary == Row(JStr(<<"1", "/", "1", "/", "2", "0", "2", "3">>), "Widget", JNum(Fin(10)))
GadgetFebruary == Row(JStr(<<"2", "/", "1", "/", "2", "0", "2", "3">>), "Gadget", JNum(Fin(20)))
WidgetDecember == Row(JStr(<<"1", "2", "/", "1", "5", "/", "2", "0", "2", "3", " ", "1", "0", ":", "3", "0">>), "Widget", JNum(Fin(10)))
\* Rows with an empty field, a field that is no number, a negative or an
\* infinite quantity, a product named like a property of Object.prototype,
\* and a sales_date that dynamicTyping turned into a number.
NoDate == Row(JNull, "Gadget", JNum(Fin(5)))
NoNumber == Row(JStr(<<"3", "/", "1", "/", "2", "0", "2", "3">>), "Widget", JStr(<<"a", "b", "c">>))
Negative == Row(JStr(<<"4", "/", "1", "/", "2", "0", "2", "3">>), "Gadget", JNum(Fin(-5)))
Inherited == Row(JStr(<<"5", "/", "1", "/", "2", "0", "2", "3">>), "constructor", JNum(Fin(7)))
NoQuantity == Row(JStr(<<"6", "/", "1", "/", "2", "0", "2", "3">>), "Widget", JNull)
Infinite == Row(JStr(<<"7", "/", "1", "/", "2", "0", "2", "3">>), "Gadget", JNum(PInf))
NumericDate == Row(JNum(Fin(20230101)), "Widget", JNum(Fin(3)))

\* The files a user uploads.
Files ==
    { <<>>,
      <<WidgetJanuary, GadgetFebruary>>,
      <<GadgetFebruary, WidgetDecember>>,
      <<WidgetJanuary, WidgetDecember>>,
      <<NoDate, NoNumber>>,
      <<Negative, NoQuantity>>,
      <<Inherited, Infinite>>,
      <<WidgetJanuary, NumericDate>> }

TypedStartDates ==
    {<<"2", "0", "2", "3", "-", "1", "1">>, <<"2", "0", "2", "3">>, <<"a", "b", "c">>}

(***************************************************************************)
(* The component.                                                          *)
(***************************************************************************)
\* What a handler created in the current render closes over.
Closure ==
    [productMap |-> productMap, startDate |-> startDate,
     selectedProduct |-> selectedProduct]

NoModel == [id |-> 0, xs |-> <<>>, ys |-> <<>>]

\* The run handleTrainModel leaves behind at its first await, for what
\* preprocessData returned and the rows xs of line 89.
RunOf(id, parsedData, closure, pre, xs) ==
    [parsedData |-> parsedData,
     closure |-> closure,
     status |-> IF pre.thrown \/ Tensor2dThrows(xs) THEN "rejected" ELSE "fitting",
     error |-> IF pre.thrown THEN "TypeError"
               ELSE IF Tensor2dThrows(xs) THEN "tensor2d" ELSE "",
     preprocessed |-> ~pre.thrown,
     newProductMap |-> IF pre.thrown THEN EmptyObject ELSE pre.newProductMap,
     model |-> IF pre.thrown \/ Tensor2dThrows(xs) THEN NoModel
               ELSE [id |-> id, xs |-> xs, ys |-> Ys(pre.normalizedData)],
     maxQuantity |-> IF pre.thrown THEN Undefined ELSE pre.maxQuantity,
     minQuantity |-> IF pre.thrown THEN Undefined ELSE pre.minQuantity]

RunAfter(id, parsedData, closure, pre) ==
    RunOf(id, parsedData, closure, pre, Xs(pre.normalizedData))

\* handleTrainModel up to its first await, lines 165-167 with 45-86 and
\* 88-104: the run it leaves behind.  preprocessData throws a TypeError on a
\* sales_date that is no string; trainModel throws when tf.tensor2d rejects
\* its rows; otherwise model.fit is pending.
NewRun(id, parsedData, closure) ==
    RunAfter(id, parsedData, closure, PreprocessData(parsedData))

\* The state handleTrainModel leaves at its first await: setLoading(true),
\* line 165; setProductMap, line 83, unless preprocessData threw before
\* reaching it.
Started(run) ==
    /\ loading' = TRUE
    /\ productMap' = IF run.preprocessed THEN run.newProductMap ELSE productMap
    /\ runs' = Append(runs, run)

\* handleTrainModel(parsedData) of a render with this closure, up to the
\* await of model.fit.
HandleTrainModel(parsedData, closure) ==
    Started(NewRun(Len(runs) + 1, parsedData, closure))

\* The rows Papa.parse hands to complete, mapped as in lines 27-31.
ParsedData(file) ==
    [i \in 1..Len(file) |->
        Row(file[i].sales_date, file[i].product_description, file[i].quantity_sold)]

Init ==
    /\ data = <<>>
    /\ predictions = <<>>
    /\ loading = FALSE
    /\ jsonData = [set |-> FALSE, rows |-> <<>>]
    /\ productMap = EmptyObject
    /\ startDate = <<>>
    /\ selectedProduct = ""
    /\ parsing = <<>>
    /\ runs = <<>>

\* handleFileChange, lines 20-43: Papa.parse starts reading the file; its
\* complete callback is the one of the current render.
HandleFileChange(file) ==
    /\ Len(runs) + Len(parsing) < MaxRuns
    /\ parsing' = Append(parsing, [file |-> file, closure |-> Closure])
    /\ UNCHANGED <<data, predictions, loading, jsonData, productMap, startDate,
                   selectedProduct, runs>>

\* The complete callback, lines 26-37, then the effect of lines 172-191 for
\* the new data.
ParseComplete(i) ==
    /\ i \in 1..Len(parsing)
    /\ LET parsedData == ParsedData(parsing[i].file)
       IN  /\ data' = parsedData
           /\ jsonData' = [set |-> TRUE, rows |-> parsedData]
           /\ HandleTrainModel(parsedData, parsing[i].closure)
           /\ startDate' = EffectStartDate(selectedProduct, parsedData, startDate)
    /\ parsing' = [j \in 1..(Len(parsing) - 1) |->
                      IF j < i THEN parsing[j] ELSE parsing[j + 1]]
    /\ UNCHANGED <<predictions, selectedProduct>>

\* The option the select shows, lines 197-206: the one whose value is
\* selectedProduct, else the first one.
DisplayedOption ==
    IF selectedProduct \in DOMAIN productMap THEN selectedProduct
    ELSE IF ObjectKeys(productMap) # <<>> THEN ObjectKeys(productMap)[1]
    ELSE ""

\* The select's onChange, line 199, then the effect of lines 172-191.
SelectProduct(product) ==
    /\ product \in DOMAIN productMap
    /\ product # DisplayedOption
    /\ selectedProduct' = product
    /\ startDate' = EffectStartDate(product, data, startDate)
    /\ UNCHANGED <<data, predictions, loading, jsonData, productMap, parsing, runs>>

\* The text input's onChange, line 210.
TypeStartDate(text) ==
    /\ text # startDate
    /\ startDate' = text
    /\ UNCHANGED <<data, predictions, loading, jsonData, productMap,
                   selectedProduct, parsing, runs>>

\* The Train Model button, lines 213-218.
ClickTrain ==
    /\ ~loading
    /\ startDate # <<>>
    /\ selectedProduct # ""
    /\ Len(runs) + Len(parsing) < MaxRuns
    /\ HandleTrainModel(data, Closure)
    /\ UNCHANGED <<data, predictions, jsonData, startDate, selectedProduct, parsing>>

\* model.fit of run r resolves: the rest of handleTrainModel, lines 167-169,
\* with predictSales, lines 116-162.
FitComplete(r) ==
    /\ r \in 1..Len(runs)
    /\ runs[r].status = "fitting"
    /\ predictions' = FuturePredictions(runs[r].model.id, runs[r].closure,
                                        runs[r].maxQuantity, runs[r].minQuantity)
    /\ loading' = FALSE
    /\ runs' = [runs EXCEPT ![r].status = "fulfilled"]
    /\ UNCHANGED <<data, jsonData, productMap, startDate, selectedProduct, parsing>>

Next ==
    \/ \E file \in Files : HandleFileChange(file)
    \/ \E i \in 1..MaxRuns : ParseComplete(i)
    \/ \E product \in DOMAIN productMap : SelectProduct(product)
    \/ \E text \in TypedStartDates : TypeStartDate(text)
    \/ ClickTrain
    \/ \E r \in 1..MaxRuns : FitComplete(r)

Spec == Init /\ [][Next]_vars

(***************************************************************************)
(* A second specification, for the horizon: the component after the file   *)
(* of Widget and Gadget was uploaded and its run finished, with a product  *)
(* selected and a start date YYYY-MM typed, for every month of the years   *)
(* 2023 to 2023 + YearSpan.  From there the user clicks Train Model and     *)
(* changes the selection.                                                  *)
(***************************************************************************)
YearSpan == 1

HorizonFile == <<WidgetJanuary, GadgetFebruary>>

HorizonStartDates ==
    {FormatYearMonth([valid |-> TRUE, y |-> 2023 + dy, m |-> m]) :
        dy \in 0..YearSpan, m \in 1..12}

FirstClosure ==
    [productMap |-> EmptyObject, startDate |-> <<>>, selectedProduct |-> ""]

InitHorizon ==
    /\ data = ParsedData(HorizonFile)
    /\ predictions = <<>>
    /\ loading = FALSE
    /\ jsonData = [set |-> TRUE, rows |-> ParsedData(HorizonFile)]
    /\ productMap = PreprocessData(ParsedData(HorizonFile)).newProductMap
    /\ startDate \in HorizonStartDates
    /\ selectedProduct \in {"Widget", "Gadget"}
    /\ parsing = <<>>
    /\ runs = <<[NewRun(1, ParsedData(HorizonFile), FirstClosure)
                   EXCEPT !.status = "fulfilled"]>>

NextHorizon ==
    \/ ClickTrain
    \/ \E r \in 1..MaxRuns : FitComplete(r)
    \/ \E product \in DOMAIN productMap : SelectProduct(product)

SpecHorizon == InitHorizon /\ [][NextHorizon]_vars

(***************************************************************************)
(* The claims.                                                             *)
(***************************************************************************)
\* The entries of a run's input that preprocessData kept, in order.
KeptEntries(run) ==
    SelectSeq(run.parsedData,
              LAMBDA entry : ~(Falsy(entry.sales_date) \/ IsNaN(entry.quantity_sold)))

\* The calendar month written in an entry's sales_date.
CalendarMonth(entry) ==
    ParseInt(Part(Split(Split(entry.sales_date.s, " ")[1], "/"), 1))

\* C1: for every calendar month m in 1..12, the phase fed to sine and cosine
\* for a training example of month m (month_index mod 12) is the phase fed
\* for a forecast feature of the same calendar month (m - 1).
C1_SamePhase ==
    \A r \in 1..Len(runs) :
        runs[r].status # "rejected" =>
            \A i \in 1..Len(runs[r].model.xs) :
                LET m == CalendarMonth(KeptEntries(runs[r])[i])
                IN  (IsFin(m) /\ m.v \in 1..12) =>
                        runs[r].model.xs[i].sincos = SinCos(ForecastPhase(m))

\* The calendar month n months after the month ym = <<year, month>>: month
\* 12 of a year is followed by month 1 of the next.
RECURSIVE CalendarAfter(_, _)
CalendarAfter(ym, n) ==
    IF n = 0 THEN ym
    ELSE CalendarAfter(IF ym[2] = 12 THEN <<ym[1] + 1, 1>> ELSE <<ym[1], ym[2] + 1>>,
                       n - 1)

CalendarLabel(ym) == <<monthNames[ym[2]], " ">> \o NatToString(ym[1])

HasCalendarStart(run) ==
    /\ run.closure.selectedProduct # ""
    /\ IsFin(StartYearMonth(run.closure.startDate).year)
    /\ StartYearMonth(run.closure.startDate).year.v >= 0
    /\ IsFin(Num(StartYearMonth(run.closure.startDate).month))
    /\ StartYearMonth(run.closure.startDate).month.v \in 1..12

StartPair(run) ==
    <<StartYearMonth(run.closure.startDate).year.v,
      StartYearMonth(run.closure.startDate).month.v>>

\* C2: a run with a selected product and a start (year, month), month in
\* 1..12, publishes exactly 6 points; the first is labeled with the start
\* month and each next one with the calendar month right after the previous
\* one, December being followed by January of the next year; from 2023-11
\* the labels are November 2023, December 2023, January 2024 to April 2024.
C2_Horizon ==
    [][\A r \in 1..Len(runs) :
          (/\ runs[r].status = "fitting"
           /\ runs'[r].status = "fulfilled"
           /\ HasCalendarStart(runs[r]))
          => /\ Len(predictions') = 6
             /\ \A j \in 1..6 :
                   predictions'[j].sales_date
                       = CalendarLabel(CalendarAfter(StartPair(runs[r]), j - 1))
             /\ StartPair(runs[r]) = <<2023, 11>> =>
                   [j \in 1..6 |-> predictions'[j].sales_date]
                       = << <<"November", " ", "2", "0", "2", "3">>,
                            <<"December", " ", "2", "0", "2", "3">>,
                            <<"January", " ", "2", "0", "2", "4">>,
                            <<"February", " ", "2", "0", "2", "4">>,
                            <<"March", " ", "2", "0", "2", "4">>,
                            <<"April", " ", "2", "0", "2", "4">> >>]_vars

\* C2's case: the horizon from 2023-11 is displayed, with its change of year.
C2_Witness ==
    /\ Len(predictions) = 6
    /\ predictions[1].sales_date = <<"November", " ", "2", "0", "2", "3">>
    /\ predictions[3].sales_date = <<"January", " ", "2", "0", "2", "4">>
    /\ predictions[6].sales_date = <<"April", " ", "2", "0", "2", "4">>
    /\ \E r \in 1..Len(runs) :
          /\ runs[r].status = "fulfilled"
          /\ runs[r].closure.startDate = <<"2", "0", "2", "3", "-", "1", "1">>
          /\ predictions[1].quantity_sold.prediction.model = r

\* The distinct elements of a sequence, in the order of their first appearance.
RECURSIVE FirstSeen(_, _)
FirstSeen(seen, rest) ==
    IF rest = <<>> THEN seen
    ELSE FirstSeen(IF \E i \in 1..Len(seen) : seen[i] = Head(rest) THEN seen
                   ELSE Append(seen, Head(rest)),
                   Tail(rest))

KeptDescriptions(run) ==
    [i \in 1..Len(KeptEntries(run)) |-> KeptEntries(run)[i].product_description]

\* C3: after preprocessing, the catalog maps the distinct descriptions of the
\* accepted records one-to-one onto 0..k-1, a description's code is its rank
\* by first appearance, and every accepted record carries the code of its
\* description.
C3_DenseFirstSeenCodes ==
    \A r \in 1..Len(runs) :
        runs[r].preprocessed =>
            LET seen == FirstSeen(<<>>, KeptDescriptions(runs[r]))
            IN  /\ DOMAIN runs[r].newProductMap = {seen[k] : k \in 1..Len(seen)}
                /\ \A k \in 1..Len(seen) : runs[r].newProductMap[seen[k]] = k - 1
                /\ runs[r].status # "rejected" =>
                      \A i \in 1..Len(runs[r].model.xs) :
                          runs[r].model.xs[i].product
                              = GetProperty(runs[r].newProductMap,
                                            KeptDescriptions(runs[r])[i])

\* A sales_date that is absent: null or the empty string.
DateAbsent(entry) ==
    entry.sales_date.t = "null" \/ (entry.sales_date.t = "str" /\ entry.sales_date.s = <<>>)

\* A quantity_sold that is a finite number.
QuantityFinite(entry) == entry.quantity_sold.t = "num" /\ IsFin(entry.quantity_sold.x)

\* C4: validation discards exactly the records whose sales_date is absent or
\* whose quantity_sold is no finite number, without failing the batch, and
\* keeps the rest in order; so every record used for training has a finite,
\* non-negative quantity_sold.
C4_Validation ==
    \A r \in 1..Len(runs) :
        /\ runs[r].preprocessed
        /\ KeptEntries(runs[r])
              = SelectSeq(runs[r].parsedData,
                          LAMBDA entry : ~DateAbsent(entry) /\ QuantityFinite(entry))
        /\ \A i \in 1..Len(KeptEntries(runs[r])) :
              /\ QuantityFinite(KeptEntries(runs[r])[i])
              /\ KeptEntries(runs[r])[i].quantity_sold.x.v >= 0

\* C5: the range a run denormalizes its predictions with is the range it
\* normalized its training quantities with, also when all quantities are
\* equal and the range is taken as 1.
C5_SameRange ==
    \A j \in 1..Len(predictions) :
        LET run == runs[predictions[j].quantity_sold.prediction.model]
        IN  \A i \in 1..Len(run.model.ys) :
                predictions[j].quantity_sold.scale = run.model.ys[i].den

\* A run that has ended: fulfilled or rejected.
Settled(run) == run.status # "fitting"

UnknownProduct(run) == run.closure.selectedProduct \notin DOMAIN run.newProductMap

\* C6: a run whose selected product is no key of the catalog, the empty
\* selection included, ends in an UnknownProduct failure: it is not
\* fulfilled, with points of an undefined product code or with none.
C6_UnknownProductFails ==
    \A r \in 1..Len(runs) :
        (Settled(runs[r]) /\ runs[r].preprocessed /\ UnknownProduct(runs[r])
         /\ runs[r].error # "tensor2d")
        => runs[r].status = "rejected" /\ runs[r].error = "UnknownProduct"

\* C7: a run that validation leaves without a clean record fails with an
\* EmptyTrainingSet error before a model is fitted: no minimum of +Infinity
\* and maximum of -Infinity are derived, and it publishes nothing.
C7_EmptyTrainingSetFails ==
    \A r \in 1..Len(runs) :
        (runs[r].preprocessed /\ KeptEntries(runs[r]) = <<>>)
        => /\ runs[r].status = "rejected"
           /\ runs[r].error = "EmptyTrainingSet"
           /\ runs[r].model = NoModel
           /\ runs[r].minQuantity # PInf
           /\ runs[r].maxQuantity # NInf

\* C8: a run that fails leaves the catalog and the displayed predictions as
\* they were before it started.
C8_FailedRunChangesNothing ==
    [][\A r \in 1..Len(runs') :
          (/\ runs'[r].status = "rejected"
           /\ (r > Len(runs) \/ runs[r].status # "rejected"))
          => productMap' = productMap /\ predictions' = predictions]_vars

\* C9: the product code fed to the model for the selected product is the
\* code that the catalog built by the same run's preprocessing gives it.
C9_OwnCatalogCode ==
    \A j \in 1..Len(predictions) :
        LET run == runs[predictions[j].quantity_sold.prediction.model]
        IN  predictions[j].quantity_sold.prediction.input.product
                = GetProperty(run.newProductMap, run.closure.selectedProduct)

\* The last run that reached setProductMap, 0 if none did.
LastPreprocessed ==
    IF \E r \in 1..Len(runs) : runs[r].preprocessed
    THEN CHOOSE r \in 1..Len(runs) :
            runs[r].preprocessed /\ \A q \in (r + 1)..Len(runs) : ~runs[q].preprocessed
    ELSE 0

\* C10: with two runs overlapping, loading is not false while a run is
\* pending, and once every run has ended the predictions are those of the
\* run started last and the catalog is the one it built.
C10_Superseding ==
    /\ (\E r \in 1..Len(runs) : runs[r].status = "fitting") => loading
    /\ (/\ runs # <<>>
        /\ \A r \in 1..Len(runs) : Settled(runs[r])
        /\ runs[Len(runs)].status = "fulfilled")
       => predictions = FuturePredictions(runs[Len(runs)].model.id,
                                          runs[Len(runs)].closure,
                                          runs[Len(runs)].maxQuantity,
                                          runs[Len(runs)].minQuantity)
    /\ LastPreprocessed # 0 => productMap = runs[LastPreprocessed].newProductMap

====
